---- MODULE Spec2Model ----
(***************************************************************************)
(* The Streamlit search assistant of Search-engine/app.py and              *)
(* Search-engine/m.py.  The two files are run side by side on the same     *)
(* process environment, the same user actions and the same outcomes of the *)
(* library calls, one browser session each.  A script run of main() is     *)
(* split at the library calls that may raise inside the try block.         *)
(***************************************************************************)
EXTENDS Integers, Sequences, FiniteSets, TLC

\* ------------------------------------------------------------------ bounds
\* How many library calls may raise in one behaviour.
MaxFailures == 1
\* How many of the four environment variables may be unset or empty.
MaxMissingKeys == 1

\* --------------------------------------------------------------- constants
MAX_CHAT_HISTORY == 20
MAX_SEARCH_RESULTS == 3
MAX_CONTENT_LENGTH == 500
SLIDER_MIN == 1
SLIDER_MAX == 5
MAX_ITERATIONS == 10

Variants == {"app", "m"}
MODEL_OPTIONS == <<"deepseek-r1-distill-llama-70b", "Llama3-70b-8192">>
REQUIRED_KEYS == {"GROQ_API_KEY", "OPENAI_API_KEY", "LANGCHAIN_API_KEY", "HF_TOKEN"}

GREETING == "Hi! I'm an AI assistant with web search capabilities. How can I help you today?"
CLEARED == "Chat history cleared. How can I help you now?"
ERROR_TEXT == "Sorry, I encountered an error processing your request. Please try again."

\* What os.getenv returns for a variable that is not set.
Unset == "<None>"
EnvValues == {Unset, "", "gsk"}
\* What the user types into st.chat_input, and what search_agent.run returns.
Prompts == {"what is tla+"}
Responses == {"final answer"}
\* str(e) of an exception a library call raises.
ExcTexts == {"rate limit exceeded"}

VARIABLES env, session, failures
vars == <<env, session, failures>>

\* As Truthy, had the check been `value is not None`.
TruthyNotNone(value) == value # Unset

\* Python truthiness of an os.getenv result: None and "" are falsy.
Truthy(value) == value # Unset /\ value # ""

Msg(role, content) == [role |-> role, content |-> content]

\* Python's lst[-n:] for n > 0.
LastN(lst, n) ==
    IF Len(lst) <= n THEN lst ELSE SubSeq(lst, Len(lst) - n + 1, Len(lst))

\* The locals of main() and the position in it, as they are between script runs.
NoLocals ==
    [pc |-> "idle", prompt |-> "", llm |-> <<>>, tools |-> <<>>,
     search_agent |-> <<>>, agent_input |-> <<>>, agent_runs |-> 0,
     response |-> "", exc |-> <<>>, prev |-> <<>>]

\* A browser session before its first script run: st.session_state is empty.
NewSession ==
    [keys |-> {}, messages |-> <<>>, groq_api_key |-> Unset, api_keys |-> <<>>,
     model_name |-> "", max_results |-> 0, local |-> NoLocals]

\* verify_api_keys: the names of the required keys with a falsy value.
missing_keys == {name \in REQUIRED_KEYS : ~Truthy(env[name])}

\* The script run ends in st.stop() before the widgets are drawn.
Stopped(v) ==
    IF v = "app" THEN ~Truthy(env["GROQ_API_KEY"]) ELSE missing_keys # {}

\* As InitMessages, had the greeting been stored on every script run.
InitMessagesEveryRun(s) == <<[role |-> "assistant", content |-> GREETING]>>

\* The history after `if "messages" not in st.session_state`.
InitMessages(s) ==
    IF "messages" \notin s.keys THEN <<Msg("assistant", GREETING)>> ELSE s.messages

initialize_session_state(v, s) ==
    LET s1 == [s EXCEPT !.keys = @ \cup {"messages"}, !.messages = InitMessages(s)]
    IN  IF v = "app"
        THEN [s1 EXCEPT !.keys = @ \cup {"groq_api_key"},
                        !.groq_api_key = env["GROQ_API_KEY"]]
        ELSE IF missing_keys # {}
             THEN s1
             ELSE [s1 EXCEPT !.keys = @ \cup {"api_keys"}, !.api_keys = env]

\* The value st.selectbox returns: the user's choice, initially option 0.
selectbox(s, ev) ==
    IF ev.type = "model" THEN ev.val
    ELSE IF "model_name" \in s.keys THEN s.model_name ELSE MODEL_OPTIONS[1]

\* The value st.slider returns: the user's choice, initially MAX_SEARCH_RESULTS.
slider(s, ev) ==
    IF ev.type = "slider" THEN ev.val
    ELSE IF "max_results" \in s.keys THEN s.max_results ELSE MAX_SEARCH_RESULTS

\* As ClearedHistory, had the button appended its entry to the history.
ClearedAppended(messages) ==
    Append(messages, [role |-> "assistant", content |-> CLEARED])

\* The history the 'Clear Chat History' button stores.
ClearedHistory(messages) == <<Msg("assistant", CLEARED)>>

\* setup_ui past the key check: the two widgets, then the clear button.
setup_ui(v, s, ev) ==
    LET s1 == [s EXCEPT !.keys = @ \cup {"model_name", "max_results"},
                        !.model_name = selectbox(s, ev),
                        !.max_results = slider(s, ev)]
    IN  IF ev.type = "clear"
        THEN [s1 EXCEPT !.messages = ClearedHistory(s1.messages),
                        !.local.pc = "rerun"]
        ELSE s1

\* main() from its first line to the try statement (or to the end of the run
\* when no prompt was submitted, the run stopped or the clear button reran it).
main(v, s, ev) ==
    LET s1 == initialize_session_state(v, s)
    IN  IF Stopped(v) THEN s1
        ELSE LET s2 == setup_ui(v, s1, ev)
             IN  IF s2.local.pc = "rerun" THEN s2
                 ELSE IF ev.type = "prompt"
                 THEN [s2 EXCEPT !.messages = Append(@, Msg("user", ev.val)),
                                 !.local = [NoLocals EXCEPT !.pc = "try",
                                                            !.prompt = ev.val,
                                                            !.prev = s2.messages]]
                 ELSE s2

\* The page of a session shows its widgets: the last run got past the key check.
Rendered(s) == "model_name" \in s.keys
AllIdle == \A v \in Variants : session[v].local.pc = "idle"

Event(type, val) == [type |-> type, val |-> val]

\* One script run of both files on the same user event.  A file whose page shows
\* no widgets cannot receive a widget event and is left as it is.
RunAll(ev) ==
    session' = [v \in Variants |->
                  IF ev.type \in {"load", "rerun"} \/ Rendered(session[v])
                  THEN main(v, session[v], ev) ELSE session[v]]

\* The browser opens the page: the first script run of the session.
PageLoad ==
    /\ \A v \in Variants : session[v].keys = {}
    /\ RunAll(Event("load", ""))
    /\ UNCHANGED <<env, failures>>

\* The user reruns the script without touching a widget.
UserRerun ==
    /\ AllIdle
    /\ \A v \in Variants : session[v].keys # {}
    /\ RunAll(Event("rerun", ""))
    /\ UNCHANGED <<env, failures>>

\* The user picks another option of the "Model" selectbox.
ChangeModel(m) ==
    /\ AllIdle
    /\ \E v \in Variants : Rendered(session[v]) /\ session[v].model_name # m
    /\ RunAll(Event("model", m))
    /\ UNCHANGED <<env, failures>>

\* The user moves the "Max Results per Source" slider.
ChangeMaxResults(n) ==
    /\ AllIdle
    /\ \E v \in Variants : Rendered(session[v]) /\ session[v].max_results # n
    /\ RunAll(Event("slider", n))
    /\ UNCHANGED <<env, failures>>

\* The user clicks 'Clear Chat History'.
ClickClear ==
    /\ AllIdle
    /\ \E v \in Variants : Rendered(session[v])
    /\ RunAll(Event("clear", ""))
    /\ UNCHANGED <<env, failures>>

\* The user submits a non-empty prompt in st.chat_input.
SubmitPrompt(p) ==
    /\ AllIdle
    /\ \E v \in Variants : Rendered(session[v])
    /\ RunAll(Event("prompt", p))
    /\ UNCHANGED <<env, failures>>

\* The script run st.rerun() starts: no widget has changed, no prompt is pending.
StRerun ==
    /\ \E v \in Variants : session[v].local.pc = "rerun"
    /\ session' = [v \in Variants |->
                     IF session[v].local.pc = "rerun"
                     THEN main(v, [session[v] EXCEPT !.local = NoLocals],
                               Event("rerun", ""))
                     ELSE session[v]]
    /\ UNCHANGED <<env, failures>>

\* ------------------------------------------------------- the try block
ChatGroq(v, s) ==
    [groq_api_key |-> IF v = "app" THEN s.groq_api_key
                      ELSE s.api_keys["GROQ_API_KEY"],
     model_name |-> s.model_name, temperature |-> "0.3", streaming |-> TRUE]

ArxivAPIWrapper(max_results, max_content) ==
    [top_k_results |-> max_results, doc_content_chars_max |-> max_content,
     load_max_docs |-> max_results]

WikipediaAPIWrapper(max_results, max_content) ==
    [top_k_results |-> max_results, doc_content_chars_max |-> max_content]

\* The web search tool is built from its name alone: it gets no wrapper.
DuckDuckGoSearchRun == [name |-> "Web Search"]

initialize_search_tools(max_results, max_content) ==
    << DuckDuckGoSearchRun,
       [name |-> "Academic Papers",
        api_wrapper |-> ArxivAPIWrapper(max_results, max_content)],
       [name |-> "Wikipedia",
        api_wrapper |-> WikipediaAPIWrapper(max_results, max_content)] >>

create_search_agent(llm, tools) ==
    [tools |-> tools, llm |-> llm,
     agent |-> "STRUCTURED_CHAT_ZERO_SHOT_REACT_DESCRIPTION",
     handle_parsing_errors |-> TRUE, verbose |-> TRUE,
     max_iterations |-> MAX_ITERATIONS, early_stopping_method |-> "generate"]

APP_GUIDELINES ==
    "You are an advanced AI research assistant with access to multiple search tools. "
    \o "Follow these guidelines: 1. Always use the Thought-Action-Observation pattern "
    \o "2. Provide well-structured, concise responses 3. Cite sources when available "
    \o "4. If unsure, say you don't know rather than guessing "
    \o "5. For complex queries, break them down into smaller questions "
M_GUIDELINES ==
    "You are an advanced AI research assistant with access to multiple search tools. "

\* The f-string (and, in m.py, the concatenation) handed to search_agent.run.
system_message(v, model_name, max_results, prompt) ==
    IF v = "app"
    THEN APP_GUIDELINES \o "Current configuration: - Model: " \o model_name
         \o " - Max results per source: " \o ToString(max_results)
         \o " User query: " \o prompt
    ELSE (M_GUIDELINES \o "Current configuration: - Model: " \o model_name
          \o " - Max results per source: " \o ToString(max_results))
         \o "\n\nUser query: " \o prompt

\* As AgentInput, had the stored conversation been put in front of the query.
AgentInputWithHistory(v, s) ==
    s.messages[1].content
    \o system_message(v, s.model_name, s.max_results, s.local.prompt)

\* The text search_agent.run receives for the prompt being handled.
AgentInput(v, s) ==
    system_message(v, s.model_name, s.max_results, s.local.prompt)

\* As TrimHistory, had the slice been messages[:MAX_CHAT_HISTORY].
TrimHistoryKeepFirst(messages) ==
    IF Len(messages) > MAX_CHAT_HISTORY
    THEN SubSeq(messages, 1, MAX_CHAT_HISTORY) ELSE messages

\* `if len(messages) > MAX_CHAT_HISTORY: messages = messages[-MAX_CHAT_HISTORY:]`
TrimHistory(messages) ==
    IF Len(messages) > MAX_CHAT_HISTORY
    THEN LastN(messages, MAX_CHAT_HISTORY) ELSE messages

\* As ErrorEntry, had the entry carried str(e).
ErrorEntryWithText(e) == [role |-> "assistant", content |-> e[1]]

\* The entry the except clause appends.
ErrorEntry(e) == Msg("assistant", ERROR_TEXT)

\* `except Exception as e`: show str(e), append the fixed entry; the run ends.
except_handler(s) ==
    [s EXCEPT !.messages = Append(@, ErrorEntry(s.local.exc)),
              !.local = NoLocals]

\* Some session is at one of the places `pcs` of the try statement.
At(pcs) == \E v \in Variants : session[v].local.pc \in pcs

\* llm = ChatGroq(...)
DoBuildLLM(v, s) ==
    [s EXCEPT !.local.llm = <<ChatGroq(v, s)>>, !.local.pc = "llm"]
BuildLLM ==
    /\ At({"try"})
    /\ session' = [v \in Variants |->
                     IF session[v].local.pc = "try"
                     THEN DoBuildLLM(v, session[v]) ELSE session[v]]
    /\ UNCHANGED <<env, failures>>

\* tools = initialize_search_tools(max_results, MAX_CONTENT_LENGTH)
DoBuildTools(s) ==
    [s EXCEPT !.local.tools =
                  <<initialize_search_tools(s.max_results, MAX_CONTENT_LENGTH)>>,
              !.local.pc = "tools"]
BuildTools ==
    /\ At({"llm"})
    /\ session' = [v \in Variants |->
                     IF session[v].local.pc = "llm"
                     THEN DoBuildTools(session[v]) ELSE session[v]]
    /\ UNCHANGED <<env, failures>>

\* search_agent = create_search_agent(llm, tools)
DoCreateAgent(s) ==
    [s EXCEPT !.local.search_agent =
                  <<create_search_agent(s.local.llm[1], s.local.tools[1])>>,
              !.local.pc = "agent"]
CreateAgent ==
    /\ At({"tools"})
    /\ session' = [v \in Variants |->
                     IF session[v].local.pc = "tools"
                     THEN DoCreateAgent(session[v]) ELSE session[v]]
    /\ UNCHANGED <<env, failures>>

\* search_agent.run is called with the system message.
DoInvoke(v, s) ==
    [s EXCEPT !.local.agent_input = <<AgentInput(v, s)>>,
              !.local.agent_runs = @ + 1,
              !.local.pc = "running"]
InvokeAgent ==
    /\ At({"agent"})
    /\ session' = [v \in Variants |->
                     IF session[v].local.pc = "agent"
                     THEN DoInvoke(v, session[v]) ELSE session[v]]
    /\ UNCHANGED <<env, failures>>

\* search_agent.run returns r, which is appended to the history.
DoReturn(s, r) ==
    [s EXCEPT !.local.response = r,
              !.messages = Append(@, Msg("assistant", r)),
              !.local.pc = "responded"]
AgentReturns(r) ==
    /\ At({"running"})
    /\ session' = [v \in Variants |->
                     IF session[v].local.pc = "running"
                     THEN DoReturn(session[v], r) ELSE session[v]]
    /\ UNCHANGED <<env, failures>>

\* As DoFinish, had m.py lost the trimming lines.
DoFinishTrimAppOnly(v, s) ==
    [s EXCEPT !.messages = IF v = "app" THEN TrimHistory(@) ELSE @,
              !.local = NoLocals]

\* st.write(response) returns, the history is trimmed and the run ends.
DoFinish(v, s) ==
    [s EXCEPT !.messages = TrimHistory(@), !.local = NoLocals]
Display ==
    /\ At({"responded"})
    /\ session' = [v \in Variants |->
                     IF session[v].local.pc = "responded"
                     THEN DoFinish(v, session[v]) ELSE session[v]]
    /\ UNCHANGED <<env, failures>>

\* The places of the try block where a call can raise: the three constructors,
\* the chat message and callback handler, search_agent.run, st.write.
TryPlaces == {"try", "llm", "tools", "agent", "running", "responded"}

\* A call of the try block raises an Exception whose str() is e.
DoRaise(s, e) == [s EXCEPT !.local.exc = <<e>>, !.local.pc = "except"]
Raise(e) ==
    /\ failures < MaxFailures
    /\ At(TryPlaces)
    /\ session' = [v \in Variants |->
                     IF session[v].local.pc \in TryPlaces
                     THEN DoRaise(session[v], e) ELSE session[v]]
    /\ failures' = failures + 1
    /\ UNCHANGED env

\* The except clause runs.
Except ==
    /\ At({"except"})
    /\ session' = [v \in Variants |->
                     IF session[v].local.pc = "except"
                     THEN except_handler(session[v]) ELSE session[v]]
    /\ UNCHANGED <<env, failures>>

Init ==
    /\ env \in {e \in [REQUIRED_KEYS -> EnvValues] :
                  Cardinality({k \in REQUIRED_KEYS : ~Truthy(e[k])}) <= MaxMissingKeys}
    /\ session = [v \in Variants |-> NewSession]
    /\ failures = 0

Next ==
    \/ PageLoad
    \/ UserRerun
    \/ \E m \in {MODEL_OPTIONS[i] : i \in DOMAIN MODEL_OPTIONS} : ChangeModel(m)
    \/ \E n \in SLIDER_MIN..SLIDER_MAX : ChangeMaxResults(n)
    \/ ClickClear
    \/ \E p \in Prompts : SubmitPrompt(p)
    \/ StRerun
    \/ BuildLLM
    \/ BuildTools
    \/ CreateAgent
    \/ InvokeAgent
    \/ \E r \in Responses : AgentReturns(r)
    \/ Display
    \/ \E e \in ExcTexts : Raise(e)
    \/ Except

Spec == Init /\ [][Next]_vars

\* ------------------------------------------------------------------ claims
Roles(messages) == [i \in DOMAIN messages |-> messages[i].role]
UserEntry(s) == Msg("user", s.local.prompt)
\* A required key of file v is unset or empty, in the words of the claims.
KeyMissing(v) ==
    IF v = "app" THEN env["GROQ_API_KEY"] \in {Unset, ""}
    ELSE \E k \in REQUIRED_KEYS : env[k] \in {Unset, ""}
AllKeysSet == \A k \in REQUIRED_KEYS : env[k] \notin {Unset, ""}
\* The places of a script run that is handling a prompt.
Handling == {"try", "llm", "tools", "agent", "running", "responded", "except"}

\* C1: whenever a script run has finished, the history holds at most
\* MAX_CHAT_HISTORY entries.
C1_HistoryAtMost20 ==
    \A v \in Variants :
        session[v].local.pc = "idle" =>
            Len(session[v].messages) <= MAX_CHAT_HISTORY

\* C2: a prompt handled without an exception leaves the last 20 entries of
\* (history before the prompt ++ [user entry, response entry]), in order; the
\* two newest entries are the prompt and the response; nothing is dropped when
\* the extended list has 20 or fewer entries.
C2_SuccessKeepsLast20 ==
    [][\A v \in Variants :
        LET s == session[v]
            t == session'[v]
            ext == s.local.prev \o <<UserEntry(s), Msg("assistant", s.local.response)>>
            n == Len(t.messages)
        IN  (s.local.pc = "responded" /\ t.local.pc = "idle") =>
               /\ t.messages = LastN(ext, 20)
               /\ n >= 2
               /\ t.messages[n - 1] = UserEntry(s)
               /\ t.messages[n] = Msg("assistant", s.local.response)
               /\ (Len(ext) <= 20 => t.messages = ext)]_vars
\* A run has ended with the greeting and the oldest entries trimmed away.
C2_Witness ==
    \E v \in Variants :
        /\ session[v].local.pc = "idle"
        /\ Len(session[v].messages) = 20
        /\ session[v].messages[1].role = "user"
        /\ session[v].messages[20] = Msg("assistant", "final answer")

\* C3: an exception raised at any call of the try block reaches the handler,
\* which appends exactly one assistant entry with the fixed text; the text of
\* the exception is not in the history, the user entry of the prompt stays, and
\* the run ends with the app awaiting input.
C3_CatchAllAppendsFixedError ==
    [][\A v \in Variants :
        LET s == session[v]
            t == session'[v]
        IN  /\ (s.local.exc = <<>> /\ t.local.exc # <<>>) => t.local.pc = "except"
            /\ s.local.pc = "except" =>
                  /\ t.messages = Append(s.messages, Msg("assistant", ERROR_TEXT))
                  /\ t.local.pc = "idle"
                  /\ t.messages[Len(s.local.prev) + 1] = UserEntry(s)
                  /\ \A i \in DOMAIN t.messages :
                        t.messages[i].content \notin ExcTexts]_vars
\* The handler is about to run for an exception raised by st.write(response).
C3_Witness ==
    \E v \in Variants :
        /\ session[v].local.pc = "except"
        /\ session[v].local.response # ""
        /\ Len(session[v].messages) > MAX_CHAT_HISTORY

\* C4: with a required key of a file unset or empty, that file's runs stop
\* before the widgets and the chat input: no prompt is accepted, the agent is
\* never invoked, and the history is at most the first-time greeting.
C4_MissingKeyStopsRun ==
    \A v \in Variants :
        KeyMissing(v) =>
            /\ session[v].local = NoLocals
            /\ ~Rendered(session[v])
            /\ session[v].messages =
                  IF "messages" \in session[v].keys
                  THEN <<Msg("assistant", GREETING)>> ELSE <<>>
\* m.py is stopped by a missing key while app.py is running the agent.
C4_Witness ==
    /\ KeyMissing("m")
    /\ "messages" \in session["m"].keys
    /\ session["app"].local.pc = "running"

\* C5: with every key set, both files hold the same history, are at the same
\* place of the run, and have the same settings, LLM client and tools.
C5_VariantsEquivalent ==
    AllKeysSet =>
        LET a == session["app"]
            b == session["m"]
        IN  /\ a.messages = b.messages
            /\ a.local.pc = b.local.pc
            /\ a.model_name = b.model_name
            /\ a.max_results = b.max_results
            /\ a.local.agent_runs = b.local.agent_runs
            /\ a.local.prompt = b.local.prompt
            /\ a.local.llm = b.local.llm
            /\ a.local.tools = b.local.tools
\* Both files are running the agent on a history that has been trimmed.
C5_Witness ==
    /\ AllKeysSet
    /\ \A v \in Variants :
          /\ session[v].local.pc = "running"
          /\ Len(session[v].messages) = MAX_CHAT_HISTORY + 1
          /\ session[v].max_results # MAX_SEARCH_RESULTS

\* C6: for every handled prompt exactly three tools are built and each is
\* configured with a result limit equal to the max-results setting.
C6_EveryToolLimited ==
    \A v \in Variants :
        LET s == session[v] IN
        s.local.tools # <<>> =>
            /\ Len(s.local.tools[1]) = 3
            /\ \A i \in DOMAIN s.local.tools[1] :
                  LET tool == s.local.tools[1][i] IN
                  /\ "api_wrapper" \in DOMAIN tool
                  /\ tool.api_wrapper.top_k_results = s.max_results

\* C7: the clear button replaces the history by the one cleared entry, leaves
\* the stored keys and the two settings as they were, and the rerun it starts
\* ends without the agent being invoked.
C7_ClearReplacesHistory ==
    [][\A v \in Variants :
        LET s == session[v]
            t == session'[v]
        IN  /\ (s.local.pc = "idle" /\ t.local.pc = "rerun") =>
                  /\ t.messages = <<Msg("assistant", CLEARED)>>
                  /\ t.groq_api_key = s.groq_api_key
                  /\ t.api_keys = s.api_keys
                  /\ t.model_name = s.model_name
                  /\ t.max_results = s.max_results
                  /\ t.keys = s.keys
            /\ s.local.pc = "rerun" =>
                  /\ t.local = NoLocals
                  /\ t.messages = s.messages
                  /\ t.model_name = s.model_name
                  /\ t.max_results = s.max_results]_vars
\* The button was clicked with both settings away from their defaults.
C7_Witness ==
    \E v \in Variants :
        /\ session[v].local.pc = "rerun"
        /\ session[v].model_name = MODEL_OPTIONS[2]
        /\ session[v].max_results = SLIDER_MAX

\* C8: the first script run stores exactly the greeting; the initialisation of
\* every later run leaves the history as it is (a run changes it only by the
\* clear button or by appending the submitted prompt); initialising twice gives
\* what initialising once gives.
C8_InitOnlyWhenAbsent ==
    [][\A v \in Variants :
        LET s == session[v]
            t == session'[v]
            once == initialize_session_state(v, s)
        IN  /\ initialize_session_state(v, once) = once
            /\ (s.keys = {} /\ t.keys # {}) =>
                  t.messages = <<Msg("assistant", GREETING)>>
            /\ (s.keys # {} /\ s.local.pc = "idle" /\ t.local.pc = "idle") =>
                  t.messages = s.messages
            /\ (s.local.pc = "idle" /\ t.local.pc = "try") =>
                  /\ s.keys # {}
                  /\ once.messages = s.messages
                  /\ t.messages = Append(s.messages, UserEntry(t))
            /\ s.local.pc = "rerun" => t.messages = s.messages]_vars
\* A session between runs whose history has grown past the greeting.
C8_Witness ==
    \E v \in Variants :
        /\ session[v].local.pc = "idle"
        /\ Len(session[v].messages) >= 3
        /\ session[v].messages[1] = Msg("assistant", GREETING)

\* C9: the user entry is recorded before the agent is invoked, the agent is
\* invoked at most once per prompt, and in every end-of-run history each prompt
\* has one user entry directly followed by exactly one assistant entry.
C9_OneAnswerPerPrompt ==
    \A v \in Variants :
        LET s == session[v]
            role == Roles(s.messages)
        IN  /\ s.local.agent_runs <= 1
            /\ s.local.pc \in Handling =>
                  s.messages[Len(s.local.prev) + 1] = UserEntry(s)
            /\ s.local.pc = "idle" =>
                  \A i \in DOMAIN role :
                     /\ role[i] = "user" =>
                           i < Len(role) /\ role[i + 1] = "assistant"
                     /\ (i > 1 /\ role[i] = "assistant") => role[i - 1] = "user"

\* C10: the text passed to search_agent.run is the same whatever history the
\* session holds, and the LLM client, the tools and the agent are built anew
\* from the current settings for every prompt.
OtherHistories ==
    { <<Msg("assistant", GREETING)>>,
      <<Msg("assistant", CLEARED), Msg("user", "earlier question"),
        Msg("assistant", ERROR_TEXT)>> }
C10_AgentInputIgnoresHistory ==
    \A v \in Variants :
        LET s == session[v] IN
        /\ s.local.pc = "try" =>
              s.local.llm = <<>> /\ s.local.tools = <<>> /\ s.local.search_agent = <<>>
        /\ s.local.pc = "running" =>
              /\ \A h \in OtherHistories \cup {session[w].messages : w \in Variants} :
                    s.local.agent_input =
                        <<AgentInput(v, [s EXCEPT !.messages = h])>>
              /\ s.local.search_agent[1].llm.model_name = s.model_name
              /\ s.local.search_agent[1].tools = s.local.tools[1]
              /\ s.local.agent_runs = 1
\* The agent is running on a prompt submitted after earlier conversation.
C10_Witness ==
    \E v \in Variants :
        /\ session[v].local.pc = "running"
        /\ Len(session[v].messages) > 4
        /\ session[v].model_name = MODEL_OPTIONS[2]
====
